---- MODULE Spec2Model ----
(***************************************************************************)
(* Model of the temporal-data-visual prototypes.                           *)
(*                                                                         *)
(*   table.py  MainWindow / TimelineTable: File > Open loads a JSON file,  *)
(*             derives 6-hour buckets, fills the grid, and two sliders and *)
(*             two date-time fields select the visible bucket range.       *)
(*   main.py   TimelineWidget: loads events.json at construction; a region  *)
(*             item selects the chart's X range and the chart can be       *)
(*             dragged horizontally.                                       *)
(*                                                                         *)
(* Instants are whole hours counted from a reference midnight (hour 0).    *)
(***************************************************************************)
EXTENDS Integers, Sequences, FiniteSets, TLC

VARIABLES
    attrs,               \* table.py: names of the MainWindow attributes assigned so far
    events,              \* table.py: MainWindow.events
    time_intervals,      \* table.py: MainWindow.time_intervals (bucket starts)
    timeline_table,      \* table.py: MainWindow.timeline_table (cells, header groups, hidden columns)
    controls,            \* table.py: start/end sliders and start/end date-time fields
    gesture,             \* table.py: the user gesture handled last
    stack,               \* table.py: the handler invocations in progress, innermost last
    events_json,         \* main.py: the content of events.json
    widget               \* main.py: the TimelineWidget under construction

vars == <<attrs, events, time_intervals, timeline_table, controls, gesture, stack,
          events_json, widget>>

tableVars == <<attrs, events, time_intervals, timeline_table, controls, gesture, stack>>
mainVars == <<events_json, widget>>

----------------------------------------------------------------------------
(* Bounds of the model and constants of the program *)

MaxHour == 27            \* latest instant an input timestamp denotes
HourStep == 3            \* spacing of the instants the inputs are drawn from
EditStep == 9            \* spacing of the instants typed into a date-time field
MaxStack == 6            \* most handler invocations in progress at once
RegionStep == 12         \* spacing of the hours the region item's lines are dropped at
MaxDragSteps == 2        \* longest mouse move of one drag event, in steps of 5 pixels
DragSpeedDivisor == 5    \* drag_speed = 0.2: one hour per 5 pixels
DragY == 0               \* translateBy(x=delta_x, y=0)
HoursPerDay == 24
BucketHours == 6
DaysPerYear == 365
NoDate == -1             \* current_date = None

Entities == <<"A", "B">>
EventNames == <<"e1", "e2">>
EventNamesOf == [e \in {"A", "B"} |-> IF e = "A" THEN {"e1", "e2"} ELSE {"e1"}]

Range(s) == {s[i] : i \in DOMAIN s}
SetMin(S) == CHOOSE m \in S : \A x \in S : m <= x
SetMax(S) == CHOOSE m \in S : \A x \in S : m >= x

EventHours == {h \in 0..MaxHour : h % HourStep = 0}
Now == MaxHour + HoursPerDay + 1     \* datetime.now(): later than every input

----------------------------------------------------------------------------
(* Input files *)

\* A raw record: a JSON string, a JSON object (with a DateTime that is an ISO
\* string, a malformed string, a non-string, or no DateTime key), or any other
\* JSON value.  `t` is the instant an ISO string denotes (0 when there is none).
Rec(shape, dt, t) == [shape |-> shape, dt |-> dt, t |-> t]

RecordValues ==
    {Rec("string", "iso", t) : t \in EventHours}
    \cup {Rec("object", "iso", t) : t \in EventHours}
    \cup {Rec("string", "bad", 0), Rec("object", "bad", 0),
          Rec("object", "nonstr", 0), Rec("object", "nokey", 0),
          Rec("other", "nokey", 0)}

Unreadable == [kind |-> "unreadable", data |-> << >>]
BadShape == [kind |-> "badshape", data |-> << >>]
Readable(d) == [kind |-> "ok", data |-> d]

Datasets(values) ==
    {("A" :> a) @@ ("B" :> b) :
        a \in [EventNamesOf["A"] -> values], b \in [EventNamesOf["B"] -> values]}

Files == {Unreadable, BadShape} \cup {Readable(d) : d \in Datasets(RecordValues)}

\* The files offered while the range controls are exercised: entity A with an
\* early string timestamp or a malformed string as e1 and a late object
\* timestamp or a malformed string as e2, entity B with a malformed string.
Malformed == Rec("string", "bad", 0)
GuiFiles ==
    {Unreadable, BadShape}
    \cup {Readable(("A" :> (("e1" :> a1) @@ ("e2" :> a2)))
                   @@ ("B" :> [n \in EventNamesOf["B"] |-> Malformed])) :
            a1 \in {Rec("string", "iso", SetMin(EventHours \ {0})), Malformed},
            a2 \in {Rec("object", "iso", SetMax(EventHours)), Malformed}}

----------------------------------------------------------------------------
(* datetime helpers *)

\* datetime.fromisoformat: the instant of an ISO string; ValueError on a
\* malformed string, TypeError on a non-string.
ParseOk(r) == r.dt = "iso"
ParseTime(r) == r.t

\* .replace(hour=0, minute=0, second=0, microsecond=0)
ReplaceMidnight(t) == t - (t % HoursPerDay)

----------------------------------------------------------------------------
(* table.py: MainWindow.load_event_data *)

\* Does load_event_data keep the record (and append its instant to all_times)?
KeepsRecord(r) ==
    \/ r.shape = "object" /\ r.dt # "nokey" /\ r.dt # "nonstr" /\ ParseOk(r)
    \/ r.shape = "string" /\ ParseOk(r)

\* What is stored for a kept record: the object itself, or {"DateTime": s}.
StoredDetails(r) == IF r.shape = "string" THEN Rec("object", r.dt, r.t) ELSE r

NoEvents == [by_entity |-> [e \in {} |-> << >>], min_datetime |-> 0]

LoadEventData(file) ==
    IF file.kind # "ok"
    THEN [raised |-> TRUE, value |-> NoEvents]
    ELSE LET raw == file.data
             kept == [e \in DOMAIN raw |->
                        [n \in {m \in DOMAIN raw[e] : KeepsRecord(raw[e][m])} |->
                            StoredDetails(raw[e][n])]]
             all_times == {ParseTime(raw[e][n]) :
                             <<e, n>> \in {p \in (DOMAIN raw) \X Range(EventNames) :
                                             /\ p[2] \in DOMAIN raw[p[1]]
                                             /\ KeepsRecord(raw[p[1]][p[2]])}}
         IN  [raised |-> FALSE,
              value |-> [by_entity |-> kept,
                         min_datetime |-> IF all_times # {} THEN SetMin(all_times)
                                          ELSE Now]]

----------------------------------------------------------------------------
(* table.py: MainWindow.generate_time_intervals *)

\* all_times collected by generate_time_intervals from the kept events
EventTimes(evs) ==
    {ParseTime(evs.by_entity[p[1]][p[2]]) :
        p \in {q \in (DOMAIN evs.by_entity) \X Range(EventNames) :
                 /\ q[2] \in DOMAIN evs.by_entity[q[1]]
                 /\ evs.by_entity[q[1]][q[2]].shape = "object"
                 /\ evs.by_entity[q[1]][q[2]].dt \notin {"nokey", "nonstr"}
                 /\ ParseOk(evs.by_entity[q[1]][q[2]])}}

\* Variant: the loop stops one bucket early.
RECURSIVE IntervalLoopShort(_, _)
IntervalLoopShort(current_time, max_time) ==
    IF current_time + BucketHours < max_time
    THEN <<current_time>> \o IntervalLoopShort(current_time + BucketHours, max_time)
    ELSE << >>

RECURSIVE IntervalLoop(_, _)
IntervalLoop(current_time, max_time) ==
    IF current_time < max_time
    THEN <<current_time>> \o IntervalLoop(current_time + BucketHours, max_time)
    ELSE << >>

\* Variant: the first bucket starts at the first event, not at its midnight.
MinTimeUnaligned(all_times) == SetMin(all_times)

MinTime(all_times) == ReplaceMidnight(SetMin(all_times))
\* Variant: two days are added past the last event.
MaxTimeExtraDay(all_times) == ReplaceMidnight(SetMax(all_times) + 2 * HoursPerDay)

MaxTime(all_times) == ReplaceMidnight(SetMax(all_times) + HoursPerDay)

GenerateTimeIntervals(evs) ==
    LET all_times == EventTimes(evs)
    IN  IF all_times = {}
        THEN [raised |-> TRUE, value |-> << >>]
        ELSE [raised |-> FALSE,
              value |-> IntervalLoop(MinTime(all_times), MaxTime(all_times))]

----------------------------------------------------------------------------
(* table.py: TimelineTable *)

\* Variant: strftime("%b"), the month alone.
DateLabelMonthOnly(t) == (t \div HoursPerDay) \div 31

\* strftime("%d-%b"): day and month, no year
DateLabel(t) == (t \div HoursPerDay) % DaysPerYear

\* One pass of the loop body of generate_date_intervals for column col.
DateStep(acc, col, time_label) ==
    LET date_label == DateLabel(time_label)
        opened == IF date_label # acc.current_date
                  THEN [date_intervals |->
                            IF acc.current_date # NoDate
                            THEN Append(acc.date_intervals,
                                        [date |-> acc.current_date,
                                         start_col |-> acc.start_col,
                                         span |-> acc.span])
                            ELSE acc.date_intervals,
                        current_date |-> date_label,
                        start_col |-> col,
                        span |-> 0]
                  ELSE acc
    IN  [opened EXCEPT !.span = @ + 1]

RECURSIVE DateLoop(_, _, _)
DateLoop(intervals, col, acc) ==
    IF col >= Len(intervals)
    THEN acc
    ELSE DateLoop(intervals, col + 1, DateStep(acc, col, intervals[col + 1]))

GenerateDateIntervals(intervals) ==
    LET acc == DateLoop(intervals, 0,
                        [date_intervals |-> << >>, current_date |-> NoDate,
                         start_col |-> 0, span |-> 0])
    IN  IF acc.current_date # NoDate
        THEN Append(acc.date_intervals,
                    [date |-> acc.current_date, start_col |-> acc.start_col,
                     span |-> acc.span])
        ELSE acc.date_intervals

\* Variant: the interval closed at its end.
InIntervalClosed(interval_start, event_time) ==
    interval_start <= event_time /\ event_time <= interval_start + BucketHours

\* Variant: the interval open at its start and closed at its end.
InIntervalOpenStart(interval_start, event_time) ==
    interval_start < event_time /\ event_time <= interval_start + BucketHours

\* interval_start <= event_time < interval_end
InInterval(interval_start, event_time) ==
    interval_start <= event_time /\ event_time < interval_start + BucketHours

\* Variant: the fraction taken of a day, not of a bucket.
TimeFractionOfDay(interval_start, event_time) ==
    [num |-> (event_time - interval_start) * 3600, den |-> HoursPerDay * 3600]

\* (event_time - interval_start).total_seconds() / (6 * 3600), as a ratio
TimeFraction(interval_start, event_time) ==
    [num |-> (event_time - interval_start) * 3600, den |-> BucketHours * 3600]

\* Does populate_table draw the event (a DateTime key that parses)?
Drawable(details) == details.dt # "nokey" /\ ParseOk(details)

\* The dots appended to the cell of bucket column col (0-based) in the row of
\* entity_events, in the order of the events.
CellDots(entity_events, interval_start) ==
    LET names == SelectSeq(EventNames,
                    LAMBDA n : /\ n \in DOMAIN entity_events
                               /\ Drawable(entity_events[n])
                               /\ InInterval(interval_start, ParseTime(entity_events[n])))
    IN  [i \in 1..Len(names) |->
            [title |-> names[i],
             time |-> ParseTime(entity_events[names[i]]),
             time_fraction |-> TimeFraction(interval_start,
                                            ParseTime(entity_events[names[i]]))]]

PopulateTable(evs, intervals) ==
    [e \in DOMAIN evs.by_entity |->
        [col \in 0..(Len(intervals) - 1) |->
            CellDots(evs.by_entity[e], intervals[col + 1])]]

\* TimelineTable.__init__: header groups, cells, no column hidden.
TimelineTable(evs, intervals) ==
    [date_intervals |-> GenerateDateIntervals(intervals),
     cells |-> PopulateTable(evs, intervals),
     hidden |-> {}]

NoTable == [date_intervals |-> << >>, cells |-> [e \in {} |-> << >>], hidden |-> {}]

----------------------------------------------------------------------------
(* table.py: range controls *)

\* setup_slider_panel: the fields show the first and last bucket start, the
\* sliders range over 0..len-1 and stand at 0 and len-1.  The handlers are
\* connected after the initial values are set, so none runs here.
SetupSliderPanel(intervals) ==
    [start_slider |-> 0,
     end_slider |-> Len(intervals) - 1,
     start_datetime_edit |-> intervals[1],
     end_datetime_edit |-> intervals[Len(intervals)]]

NoControls ==
    [start_slider |-> 0, end_slider |-> 0,
     start_datetime_edit |-> 0, end_datetime_edit |-> 0]

\* QSlider.setValue bounds the value by minimum() and maximum().
SliderBound(intervals, v) ==
    IF v < 0 THEN 0
    ELSE IF v > Len(intervals) - 1 THEN Len(intervals) - 1 ELSE v

\* Variant: the first bucket start strictly after dt.
FirstIndexAfter(intervals, dt, default) ==
    LET hits == {i \in 0..(Len(intervals) - 1) : intervals[i + 1] > dt}
    IN  IF hits = {} THEN default ELSE SetMin(hits)

\* next((i for i, t in enumerate(time_intervals) if t >= dt), default)
FirstIndexAtOrAfter(intervals, dt, default) ==
    LET hits == {i \in 0..(Len(intervals) - 1) : intervals[i + 1] >= dt}
    IN  IF hits = {} THEN default ELSE SetMin(hits)

\* Variant: the bucket index taken for the table column.
HiddenColumnsShifted(intervals, start_index, end_index) ==
    {col \in 1..Len(intervals) : ~(start_index <= col /\ col <= end_index)}

\* set_visible_columns: the table columns hidden for the range; table column
\* 0 holds the entity names and bucket i is table column i + 1.
HiddenColumns(intervals, start_index, end_index) ==
    {col \in 1..Len(intervals) : ~(start_index <= col - 1 /\ col - 1 <= end_index)}

\* Variant: the first test never fires.
SlidersNeverCross(start_index, end_index) == FALSE

\* Do the sliders cross (first test of on_slider_change)?
SlidersCross(start_index, end_index) == start_index > end_index

\* The handlers act on w: the four control values and the hidden columns.
\* A setter that changes nothing emits no signal; a setter that changes the
\* value runs the connected handler before it returns.
RECURSIVE OnSliderChange(_, _)
RECURSIVE StartSliderSetValue(_, _, _)
RECURSIVE EndSliderSetValue(_, _, _)
RECURSIVE OnStartDatetimeChanged(_, _)
RECURSIVE OnEndDatetimeChanged(_, _)
RECURSIVE StartEditSetDateTime(_, _, _)
RECURSIVE EndEditSetDateTime(_, _, _)

StartSliderSetValue(intervals, w, v) ==
    LET b == SliderBound(intervals, v)
    IN  IF b = w.start_slider THEN w
        ELSE OnSliderChange(intervals, [w EXCEPT !.start_slider = b])

EndSliderSetValue(intervals, w, v) ==
    LET b == SliderBound(intervals, v)
    IN  IF b = w.end_slider THEN w
        ELSE OnSliderChange(intervals, [w EXCEPT !.end_slider = b])

StartEditSetDateTime(intervals, w, dt) ==
    IF dt = w.start_datetime_edit THEN w
    ELSE OnStartDatetimeChanged(intervals, [w EXCEPT !.start_datetime_edit = dt])

EndEditSetDateTime(intervals, w, dt) ==
    IF dt = w.end_datetime_edit THEN w
    ELSE OnEndDatetimeChanged(intervals, [w EXCEPT !.end_datetime_edit = dt])

\* Variant: on_slider_change without the cross-over tests.
OnSliderChangeUnchecked(intervals, w) ==
    LET start_index == w.start_slider
        end_index == w.end_slider
        w1 == StartEditSetDateTime(intervals, w, intervals[start_index + 1])
        w2 == EndEditSetDateTime(intervals, w1, intervals[end_index + 1])
    IN  [w2 EXCEPT !.hidden = HiddenColumns(intervals, start_index, end_index)]

OnSliderChange(intervals, w) ==
    LET start_index == w.start_slider
        end_index == w.end_slider
    IN  IF SlidersCross(start_index, end_index)
        THEN StartSliderSetValue(intervals, w, end_index)
        ELSE IF end_index < start_index
        THEN EndSliderSetValue(intervals, w, start_index)
        ELSE LET w1 == StartEditSetDateTime(intervals, w, intervals[start_index + 1])
                 w2 == EndEditSetDateTime(intervals, w1, intervals[end_index + 1])
             IN  [w2 EXCEPT !.hidden = HiddenColumns(intervals, start_index, end_index)]

OnStartDatetimeChanged(intervals, w) ==
    StartSliderSetValue(intervals, w,
        FirstIndexAtOrAfter(intervals, w.start_datetime_edit, 0))

OnEndDatetimeChanged(intervals, w) ==
    EndSliderSetValue(intervals, w,
        FirstIndexAtOrAfter(intervals, w.end_datetime_edit, Len(intervals) - 1))

\* The controls and the table's hidden columns as one handler state, and back.
HandlerState ==
    [start_slider |-> controls.start_slider,
     end_slider |-> controls.end_slider,
     start_datetime_edit |-> controls.start_datetime_edit,
     end_datetime_edit |-> controls.end_datetime_edit,
     hidden |-> timeline_table.hidden]

ControlsOf(w) ==
    [start_slider |-> w.start_slider,
     end_slider |-> w.end_slider,
     start_datetime_edit |-> w.start_datetime_edit,
     end_datetime_edit |-> w.end_datetime_edit]

----------------------------------------------------------------------------
(* table.py: MainWindow.open_file and the gestures on the range controls *)

NoFile == [kind |-> "none", data |-> << >>]

\* The gesture handled last: its kind and the value asked for (for File > Open:
\* 1 when the error box was shown, 0 otherwise).
Gesture(op, value) == [op |-> op, value |-> value]

PanelAttrs ==
    {"time_intervals", "timeline_table", "range_slider_panel",
     "start_datetime_edit", "end_datetime_edit", "start_slider", "end_slider"}

\* File > Open with a file chosen in the dialog.  Every exception is caught
\* and reported in a message box; assignments made before it stay.  The menu
\* action runs from the event loop, when no handler is in progress.
OpenFile(file) ==
    LET loaded == LoadEventData(file)
        generated == GenerateTimeIntervals(loaded.value)
    IN  /\ stack = << >>
        /\ gesture' = Gesture("open_file",
                               IF loaded.raised \/ generated.raised THEN 1 ELSE 0)
        /\ UNCHANGED <<stack, events_json, widget>>
        /\ IF loaded.raised
           THEN UNCHANGED <<attrs, events, time_intervals, timeline_table, controls>>
           ELSE /\ events' = loaded.value
                /\ IF generated.raised
                   THEN /\ attrs' = attrs \cup {"events"}
                        /\ UNCHANGED <<time_intervals, timeline_table, controls>>
                   ELSE /\ attrs' = attrs \cup {"events"} \cup PanelAttrs
                        /\ time_intervals' = generated.value
                        /\ timeline_table' = TimelineTable(loaded.value, generated.value)
                        /\ controls' = SetupSliderPanel(generated.value)

\* The handlers' result written back to the controls and the table.
Handled(w) ==
    /\ controls' = ControlsOf(w)
    /\ timeline_table' = [timeline_table EXCEPT !.hidden = w.hidden]
    /\ UNCHANGED <<attrs, events, time_intervals, stack>>
    /\ UNCHANGED mainVars

\* Values asked of a slider: its positions, and one past the last.
SliderRequests == 0..Len(time_intervals)

\* Instants typed into a date-time field: from before the first bucket to
\* after the last.
EditInstants ==
    {h \in (0 - EditStep)..(MaxHour + HoursPerDay + EditStep) : h % EditStep = 0}

MoveStartSlider(v) ==
    /\ "start_slider" \in attrs
    /\ gesture' = Gesture("start_slider", v)
    /\ Handled(StartSliderSetValue(time_intervals, HandlerState, v))

MoveEndSlider(v) ==
    /\ "end_slider" \in attrs
    /\ gesture' = Gesture("end_slider", v)
    /\ Handled(EndSliderSetValue(time_intervals, HandlerState, v))

EditStartDatetime(dt) ==
    /\ "start_datetime_edit" \in attrs
    /\ gesture' = Gesture("start_datetime", dt)
    /\ Handled(StartEditSetDateTime(time_intervals, HandlerState, dt))

EditEndDatetime(dt) ==
    /\ "end_datetime_edit" \in attrs
    /\ gesture' = Gesture("end_datetime", dt)
    /\ Handled(EndEditSetDateTime(time_intervals, HandlerState, dt))

\* showEvent: Qt delivers it when window.show() makes the window visible and
\* again whenever the window is restored.  `if self.timeline_table:` reads an
\* attribute that __init__ never assigns: before the first successful load
\* the read raises AttributeError, which PyQt either reports, the event loop
\* going on, or ends the process on, depending on the build and on
\* sys.excepthook.  Outcome 0: the columns are resized; 1: AttributeError
\* reported; 2: AttributeError ends the process.
ShowOutcomes == {0, 1, 2}

\* The process has ended: nothing runs any more.
Aborted == gesture = Gesture("show_event", 2)

ShowEvent(outcome) ==
    /\ ~Aborted
    /\ stack = << >>
    /\ IF "timeline_table" \in attrs THEN outcome = 0 ELSE outcome \in {1, 2}
    /\ gesture' = Gesture("show_event", outcome)
    /\ UNCHANGED <<attrs, events, time_intervals, timeline_table, controls, stack,
                   events_json, widget>>

----------------------------------------------------------------------------
(* table.py: the handlers of the range controls, one invocation step at a time *)

\* An invocation in progress: the handler, where it stands, and the locals
\* start_index and end_index of on_slider_change.
Frame(handler, pc, start_index, end_index) ==
    [handler |-> handler, pc |-> pc,
     start_index |-> start_index, end_index |-> end_index]

Enter(handler) == Frame(handler, "enter", 0, 0)

\* QSlider.setValue: the bounded value, and whether valueChanged is emitted.
SliderSet(slider, v) ==
    LET b == SliderBound(time_intervals, v)
    IN  [changed |-> b # controls[slider],
         controls |-> [controls EXCEPT ![slider] = b]]

\* QDateTimeEdit.setDateTime: dateTimeChanged is emitted on a change only.
EditSet(edit, dt) ==
    [changed |-> dt # controls[edit],
     controls |-> [controls EXCEPT ![edit] = dt]]

\* The slot a signal runs, when the signal is emitted.
Emit(changed, handler) == IF changed THEN <<Enter(handler)>> ELSE << >>

\* The running invocation goes on as `rest` (nothing when it returns) below
\* the slots it started.
Continue(rest, started) ==
    /\ Len(stack) - 1 + Len(rest) + Len(started) <= MaxStack
    /\ stack' = SubSeq(stack, 1, Len(stack) - 1) \o rest \o started

Top == stack[Len(stack)]

Running(handler, pc) ==
    /\ stack # << >>
    /\ Top.handler = handler
    /\ Top.pc = pc

\* Variant: on_slider_change without the cross-over tests.
OnSliderChangeBranchUnchecked(start_index, end_index) == "update"

\* The tests of on_slider_change on the values it read.
OnSliderChangeBranch(start_index, end_index) ==
    IF SlidersCross(start_index, end_index) THEN "set_start"
    ELSE IF end_index < start_index THEN "set_end"
    ELSE "update"

\* A user moves a slider or types into a field while no handler runs.
StartSliderGesture(v) ==
    /\ stack = << >>
    /\ "start_slider" \in attrs
    /\ gesture' = Gesture("start_slider", v)
    /\ LET set == SliderSet("start_slider", v)
       IN  /\ controls' = set.controls
           /\ stack' = Emit(set.changed, "on_slider_change")
    /\ UNCHANGED <<attrs, events, time_intervals, timeline_table, events_json, widget>>

EndSliderGesture(v) ==
    /\ stack = << >>
    /\ "end_slider" \in attrs
    /\ gesture' = Gesture("end_slider", v)
    /\ LET set == SliderSet("end_slider", v)
       IN  /\ controls' = set.controls
           /\ stack' = Emit(set.changed, "on_slider_change")
    /\ UNCHANGED <<attrs, events, time_intervals, timeline_table, events_json, widget>>

StartEditGesture(dt) ==
    /\ stack = << >>
    /\ "start_datetime_edit" \in attrs
    /\ gesture' = Gesture("start_datetime", dt)
    /\ LET set == EditSet("start_datetime_edit", dt)
       IN  /\ controls' = set.controls
           /\ stack' = Emit(set.changed, "on_start_datetime_changed")
    /\ UNCHANGED <<attrs, events, time_intervals, timeline_table, events_json, widget>>

EndEditGesture(dt) ==
    /\ stack = << >>
    /\ "end_datetime_edit" \in attrs
    /\ gesture' = Gesture("end_datetime", dt)
    /\ LET set == EditSet("end_datetime_edit", dt)
       IN  /\ controls' = set.controls
           /\ stack' = Emit(set.changed, "on_end_datetime_changed")
    /\ UNCHANGED <<attrs, events, time_intervals, timeline_table, events_json, widget>>

\* on_slider_change, from its entry to the first setter it calls (lines 407-419)
SliderChangeEnter ==
    /\ Running("on_slider_change", "enter")
    /\ LET start_index == controls.start_slider
           end_index == controls.end_slider
           branch == OnSliderChangeBranch(start_index, end_index)
           set == CASE branch = "set_start" -> SliderSet("start_slider", end_index)
                    [] branch = "set_end" -> SliderSet("end_slider", start_index)
                    [] OTHER -> EditSet("start_datetime_edit",
                                        time_intervals[start_index + 1])
       IN  /\ controls' = set.controls
           /\ IF branch = "update"
              THEN Continue(<<Frame("on_slider_change", "end_edit",
                                    start_index, end_index)>>,
                            Emit(set.changed, "on_start_datetime_changed"))
              ELSE Continue(<<Frame("on_slider_change", "return", 0, 0)>>,
                            Emit(set.changed, "on_slider_change"))
    /\ UNCHANGED <<attrs, events, time_intervals, timeline_table, gesture,
                   events_json, widget>>

\* on_slider_change, line 420
SliderChangeEndEdit ==
    /\ Running("on_slider_change", "end_edit")
    /\ LET set == EditSet("end_datetime_edit", time_intervals[Top.end_index + 1])
       IN  /\ controls' = set.controls
           /\ Continue(<<[Top EXCEPT !.pc = "columns"]>>,
                       Emit(set.changed, "on_end_datetime_changed"))
    /\ UNCHANGED <<attrs, events, time_intervals, timeline_table, gesture,
                   events_json, widget>>

\* on_slider_change, lines 423-425: set_visible_columns with the locals, and
\* the handler returns.
SliderChangeColumns ==
    /\ Running("on_slider_change", "columns")
    /\ timeline_table' =
          [timeline_table EXCEPT
              !.hidden = HiddenColumns(time_intervals, Top.start_index,
                                       Top.end_index)]
    /\ Continue(<< >>, << >>)
    /\ UNCHANGED <<attrs, events, time_intervals, controls, gesture,
                   events_json, widget>>

StartDatetimeChanged ==
    /\ Running("on_start_datetime_changed", "enter")
    /\ LET set == SliderSet("start_slider",
                      FirstIndexAtOrAfter(time_intervals,
                                          controls.start_datetime_edit, 0))
       IN  /\ controls' = set.controls
           /\ Continue(<<Frame("on_start_datetime_changed", "return", 0, 0)>>,
                       Emit(set.changed, "on_slider_change"))
    /\ UNCHANGED <<attrs, events, time_intervals, timeline_table, gesture,
                   events_json, widget>>

EndDatetimeChanged ==
    /\ Running("on_end_datetime_changed", "enter")
    /\ LET set == SliderSet("end_slider",
                      FirstIndexAtOrAfter(time_intervals,
                                          controls.end_datetime_edit,
                                          Len(time_intervals) - 1))
       IN  /\ controls' = set.controls
           /\ Continue(<<Frame("on_end_datetime_changed", "return", 0, 0)>>,
                       Emit(set.changed, "on_slider_change"))
    /\ UNCHANGED <<attrs, events, time_intervals, timeline_table, gesture,
                   events_json, widget>>

\* The slot a setter ran has returned; so does the handler that called it.
HandlerReturn ==
    /\ stack # << >>
    /\ Top.pc = "return"
    /\ Continue(<< >>, << >>)
    /\ UNCHANGED <<attrs, events, time_intervals, timeline_table, controls,
                   gesture, events_json, widget>>

HandlerStep ==
    \/ SliderChangeEnter
    \/ SliderChangeEndEdit
    \/ SliderChangeColumns
    \/ StartDatetimeChanged
    \/ EndDatetimeChanged
    \/ HandlerReturn

----------------------------------------------------------------------------
(* main.py: TimelineWidget.__init__ *)

\* Records get_datetime_range, set_scrolling_limits and draw_data_points hand
\* to datetime.fromisoformat: strings, and objects with a DateTime key.
MainReads(r) == (r.shape = "object" /\ r.dt # "nokey") \/ r.shape = "string"

\* fromisoformat raises (ValueError or TypeError) and nothing catches it.
MainRaises(r) == MainReads(r) /\ ~ParseOk(r)

RawSlots(raw) ==
    {p \in (DOMAIN raw) \X Range(EventNames) : p[2] \in DOMAIN raw[p[1]]}

\* get_datetime_range
GetDatetimeRange(raw) ==
    LET read == {p \in RawSlots(raw) : MainReads(raw[p[1]][p[2]])}
        all_datetimes == {ParseTime(raw[p[1]][p[2]]) : p \in read}
    IN  IF \E p \in read : MainRaises(raw[p[1]][p[2]])
        THEN [raised |-> TRUE, min |-> 0, max |-> 0]
        ELSE IF all_datetimes = {}
        THEN [raised |-> TRUE, min |-> 0, max |-> 0]
        ELSE [raised |-> FALSE, min |-> SetMin(all_datetimes),
              max |-> SetMax(all_datetimes)]

\* (max_datetime - min_datetime).total_seconds() // 3600
TotalHours(min_datetime, max_datetime) == max_datetime - min_datetime

\* CustomChart.set_scrolling_limits: 0 to the midnight after the last event,
\* in hours since the first event.
ScrollLimits(min_time, max_time) ==
    <<0, ReplaceMidnight(max_time + HoursPerDay) - min_time>>

\* CustomChart.draw_data_points: one point per record read, at its hours since
\* min_datetime.
DataPoints(raw, min_datetime) ==
    {[label |-> p[1], event |-> p[2],
      x |-> ParseTime(raw[p[1]][p[2]]) - min_datetime] :
        p \in {q \in RawSlots(raw) : MainReads(raw[q[1]][q[2]])}}

\* The Y range of the chart: draw_shaded_columns gives every column the
\* height len(y_labels), one row per top-level key of the file, and the Y
\* axis is left to auto-range over them.
RowExtent(raw) == <<0, Cardinality(DOMAIN raw)>>

NotConstructed ==
    [status |-> "not_constructed", min_datetime |-> 0, max_datetime |-> 0,
     total_hours |-> 0, scroll_limits |-> <<0, 0>>, points |-> {},
     region |-> <<0, 0>>, x_range |-> <<0, 0>>, y_range |-> <<0, 0>>]

\* TimelineWidget.__init__: an exception of load_event_data or
\* get_datetime_range leaves no widget.
Construct ==
    /\ widget.status = "not_constructed"
    /\ UNCHANGED <<events_json, attrs, events, time_intervals, timeline_table,
                   controls, gesture, stack>>
    /\ IF events_json.kind # "ok"
       THEN widget' = [NotConstructed EXCEPT !.status = "raised"]
       ELSE LET range == GetDatetimeRange(events_json.data)
            IN  IF range.raised
                THEN widget' = [NotConstructed EXCEPT !.status = "raised"]
                ELSE widget' =
                        [status |-> "ok",
                         min_datetime |-> range.min,
                         max_datetime |-> range.max,
                         total_hours |-> TotalHours(range.min, range.max),
                         scroll_limits |-> ScrollLimits(range.min, range.max),
                         points |-> DataPoints(events_json.data, range.min),
                         region |-> <<0, HoursPerDay>>,
                         x_range |-> <<0, HoursPerDay>>,
                         y_range |-> RowExtent(events_json.data)]

----------------------------------------------------------------------------
(* main.py: the region item of the slider and drags on the chart *)

\* The events.json files the chart is exercised with: entity A with an early
\* string timestamp and an object timestamp on the same or on the next day,
\* entity B with a value that is neither; and an unreadable file.
ChartFiles ==
    {Unreadable}
    \cup {Readable(("A" :> (("e1" :> Rec("string", "iso", a1))
                            @@ ("e2" :> Rec("object", "iso", a2))))
                   @@ ("B" :> [n \in EventNamesOf["B"] |-> Rec("other", "nokey", 0)])) :
            a1 \in {0, SetMin(EventHours \ {0})},
            a2 \in {SetMin(EventHours \ {0}) + SetMin(EventHours \ {0}),
                    SetMax(EventHours)}}

\* Hours the lines of the LinearRegionItem are dropped at: the item is given
\* no bounds, so a line can leave the slider's X range on either side.
RegionStops ==
    {h \in (0 - RegionStep)..(MaxHour + HoursPerDay) : h % RegionStep = 0}

\* Mouse moves of one drag event, in pixels.
DragPixels == {DragSpeedDivisor * k : k \in (0 - MaxDragSteps)..MaxDragSteps}

\* The user moves the region or one of its lines: sigRegionChanged runs
\* on_slider_change, which hands getRegion() to CustomChart.set_x_range;
\* setXRange applies it with the padding suggestPadding returns, 0.
ChangeRegion(lo, hi) ==
    /\ widget.status = "ok"
    /\ lo < hi
    /\ <<lo, hi>> # widget.region
    /\ widget' = [widget EXCEPT !.region = <<lo, hi>>, !.x_range = <<lo, hi>>]
    /\ UNCHANGED <<events_json, attrs, events, time_intervals, timeline_table,
                   controls, gesture, stack>>

\* Variant: the scroll limits are not applied.
DragDeltaUnlimited(x_range, scroll_limits, pixels) ==
    pixels \div DragSpeedDivisor

\* HorizontalScrollViewBox.mouseDragEvent with the left button: the view is
\* translated by the scaled mouse move, cut back by what the moved range
\* would pass each scroll limit.
DragDelta(x_range, scroll_limits, pixels) ==
    LET delta_x == pixels \div DragSpeedDivisor
        new_x_range == <<x_range[1] + delta_x, x_range[2] + delta_x>>
        below == IF new_x_range[1] < scroll_limits[1]
                 THEN delta_x - (new_x_range[1] - scroll_limits[1])
                 ELSE delta_x
    IN  IF new_x_range[2] > scroll_limits[2]
        THEN below - (new_x_range[2] - scroll_limits[2])
        ELSE below

Drag(pixels) ==
    /\ widget.status = "ok"
    /\ LET delta_x == DragDelta(widget.x_range, widget.scroll_limits, pixels)
       IN  widget' = [widget EXCEPT !.x_range = <<widget.x_range[1] + delta_x,
                                                  widget.x_range[2] + delta_x>>,
                                    !.y_range = <<widget.y_range[1] + DragY,
                                                  widget.y_range[2] + DragY>>]
    /\ UNCHANGED <<events_json, attrs, events, time_intervals, timeline_table,
                   controls, gesture, stack>>

----------------------------------------------------------------------------
(* Specifications *)

InitTable ==
    /\ attrs = {}
    /\ events = NoEvents
    /\ time_intervals = << >>
    /\ timeline_table = NoTable
    /\ controls = NoControls
    /\ gesture = Gesture("none", 0)
    /\ stack = << >>

\* table.py with the range controls exercised
Init ==
    /\ InitTable
    /\ events_json = NoFile
    /\ widget = NotConstructed

Next ==
    \/ \E file \in GuiFiles : OpenFile(file)
    \/ \E v \in SliderRequests : MoveStartSlider(v)
    \/ \E v \in SliderRequests : MoveEndSlider(v)
    \/ \E dt \in EditInstants : EditStartDatetime(dt)
    \/ \E dt \in EditInstants : EditEndDatetime(dt)

Spec == Init /\ [][Next]_vars

\* table.py: the first File > Open, over every input file
FirstOpenFile ==
    /\ gesture.op = "none"
    /\ \E file \in Files : OpenFile(file)

SpecLoad == Init /\ [][FirstOpenFile]_vars

\* table.py with the handlers of the range controls run step by step.  A slot
\* runs inside the setter that emitted its signal and nothing else runs until
\* it returns, so a handler in progress always takes its next step.
NextCascade ==
    \/ \E file \in GuiFiles : OpenFile(file)
    \/ \E v \in SliderRequests : StartSliderGesture(v)
    \/ \E v \in SliderRequests : EndSliderGesture(v)
    \/ \E dt \in EditInstants : StartEditGesture(dt)
    \/ \E dt \in EditInstants : EndEditGesture(dt)
    \/ SliderChangeEnter
    \/ SliderChangeEndEdit
    \/ SliderChangeColumns
    \/ StartDatetimeChanged
    \/ EndDatetimeChanged
    \/ HandlerReturn

SpecCascade == Init /\ [][NextCascade]_vars /\ WF_vars(HandlerStep)

\* table.py from window.show() on: show events, File > Open and the range
\* controls, until the process ends.
NextWindow ==
    \/ \E outcome \in ShowOutcomes : ShowEvent(outcome)
    \/ ~Aborted /\ Next

SpecWindow == Init /\ [][NextWindow]_vars

\* main.py: construction of the widget, over every events.json
InitMain ==
    /\ InitTable
    /\ events_json \in Files
    /\ widget = NotConstructed

SpecMain == InitMain /\ [][Construct]_vars

\* main.py: the widget constructed and then used
InitChart ==
    /\ InitTable
    /\ events_json \in ChartFiles
    /\ widget = NotConstructed

NextChart ==
    \/ Construct
    \/ \E lo, hi \in RegionStops : ChangeRegion(lo, hi)
    \/ \E pixels \in DragPixels : Drag(pixels)

SpecChart == InitChart /\ [][NextChart]_vars

----------------------------------------------------------------------------
(* Properties *)

Loaded == "time_intervals" \in attrs
BucketCount == Len(time_intervals)
BucketCols == 0..(BucketCount - 1)
KeptSlots ==
    {p \in (DOMAIN events.by_entity) \X Range(EventNames) :
        p[2] \in DOMAIN events.by_entity[p[1]]}
KeptTime(p) == ParseTime(events.by_entity[p[1]][p[2]])

\* C1: after every gesture on the range controls has been handled, the start
\* slider's value is at most the end slider's value.
SlidersOrdered ==
    "start_slider" \in attrs => controls.start_slider <= controls.end_slider

\* A start-slider request above the end slider's value has been handled.
SlidersOrderedWitness ==
    /\ gesture.op = "start_slider"
    /\ gesture.value > controls.end_slider
    /\ gesture.value < BucketCount
    /\ controls.start_slider = controls.end_slider

\* C2: when File > Open fails with a dataset loaded, the events, the buckets,
\* the table and the range controls are what they were before the attempt.
FailedLoadKeepsDataset ==
    [][(gesture'.op = "open_file" /\ gesture'.value = 1 /\ Loaded)
        => /\ events' = events
           /\ time_intervals' = time_intervals
           /\ timeline_table' = timeline_table
           /\ controls' = controls]_vars

\* C3: a start-slider request above the end slider's value, the bucket count
\* included, leaves the start slider at the end slider's value and the end
\* slider where it was.
StartAboveEndClamps ==
    [][(gesture'.op = "start_slider" /\ gesture'.value > controls.end_slider)
        => /\ controls'.start_slider = controls.end_slider
           /\ controls'.end_slider = controls.end_slider]_vars

\* The start slider was asked for the bucket count with the end slider below
\* its maximum.
StartAboveEndWitness ==
    /\ gesture.op = "start_slider"
    /\ gesture.value = BucketCount
    /\ controls.end_slider < BucketCount - 1
    /\ controls.start_slider = controls.end_slider

\* C4: bucket starts are one bucket width apart, and the first is the
\* midnight on or before the earliest event.
BucketsContiguous ==
    Loaded =>
        /\ BucketCount >= 1
        /\ \A i \in 1..(BucketCount - 1) :
              /\ time_intervals[i] < time_intervals[i + 1]
              /\ time_intervals[i + 1] = time_intervals[i] + BucketHours
        /\ time_intervals[1] % HoursPerDay = 0
        /\ time_intervals[1] <= SetMin(EventTimes(events))
        /\ SetMin(EventTimes(events)) < time_intervals[1] + HoursPerDay

\* Buckets of a day after the reference day, whose earliest event is after
\* that day's midnight.
BucketsContiguousWitness ==
    /\ Loaded
    /\ BucketCount >= HoursPerDay \div BucketHours
    /\ time_intervals[1] > 0
    /\ SetMin(EventTimes(events)) > time_intervals[1]

\* C5: the last bucket ends at the midnight on or after the latest event, one
\* day later when the latest event is at midnight.
LastBucketEndsAtMidnight ==
    Loaded =>
        LET last_end == time_intervals[BucketCount] + BucketHours
            max_instant == SetMax(EventTimes(events))
        IN  /\ last_end % HoursPerDay = 0
            /\ IF max_instant % HoursPerDay = 0
               THEN last_end = max_instant + HoursPerDay
               ELSE max_instant < last_end /\ last_end < max_instant + HoursPerDay

\* The latest event is at a midnight, after an earlier event.
LastBucketMidnightWitness ==
    /\ Loaded
    /\ SetMax(EventTimes(events)) % HoursPerDay = 0
    /\ SetMax(EventTimes(events)) > SetMin(EventTimes(events))

\* The bucket columns of an entity's row that hold a dot of the event.
ColumnsOf(p) ==
    {c \in BucketCols :
        \E i \in DOMAIN timeline_table.cells[p[1]][c] :
            timeline_table.cells[p[1]][c][i].title = p[2]}

\* C6: every kept event has its dot in exactly one bucket column of its
\* entity's row, once, and an event at a bucket start is in the bucket that
\* starts there.
EventInOneBucket ==
    Loaded =>
        \A p \in KeptSlots :
            /\ Cardinality(ColumnsOf(p)) = 1
            /\ \A c \in ColumnsOf(p) :
                  Cardinality({i \in DOMAIN timeline_table.cells[p[1]][c] :
                                 timeline_table.cells[p[1]][c][i].title = p[2]}) = 1
            /\ \A c \in BucketCols :
                  time_intervals[c + 1] = KeptTime(p) => ColumnsOf(p) = {c}

\* An event at the boundary between two buckets is in the later one.
EventOnBoundaryWitness ==
    /\ Loaded
    /\ \E p \in KeptSlots : \E c \in BucketCols :
          /\ c >= 1
          /\ time_intervals[c + 1] = KeptTime(p)
          /\ ColumnsOf(p) = {c}

\* C7: every dot's time_fraction is in [0, 1), is the event's offset into the
\* bucket over the bucket width, and the bucket contains the event.
FractionInBucket ==
    Loaded =>
        \A e \in DOMAIN timeline_table.cells : \A c \in BucketCols :
            \A i \in DOMAIN timeline_table.cells[e][c] :
                LET dot == timeline_table.cells[e][c][i]
                    event_time == KeptTime(<<e, dot.title>>)
                    bucket_start == time_intervals[c + 1]
                IN  /\ dot.title \in DOMAIN events.by_entity[e]
                    /\ 0 <= dot.time_fraction.num
                    /\ dot.time_fraction.num < dot.time_fraction.den
                    /\ dot.time_fraction.num * BucketHours
                         = (event_time - bucket_start) * dot.time_fraction.den
                    /\ bucket_start <= event_time
                    /\ event_time < bucket_start + BucketHours

\* A dot strictly inside its bucket, in a bucket that is not the first.
FractionInsideWitness ==
    /\ Loaded
    /\ \E e \in DOMAIN timeline_table.cells : \E c \in BucketCols :
          /\ c >= 1
          /\ \E i \in DOMAIN timeline_table.cells[e][c] :
                timeline_table.cells[e][c][i].time_fraction.num > 0

\* The calendar day of a bucket.
BucketDay(c) == time_intervals[c + 1] \div HoursPerDay

\* C8: the header groups partition the bucket columns in order, each with a
\* span of at least one, each within one calendar day, adjacent groups on
\* different days.
DateGroupsPartition ==
    Loaded =>
        LET groups == timeline_table.date_intervals
        IN  /\ Len(groups) >= 1
            /\ groups[1].start_col = 0
            /\ groups[Len(groups)].start_col + groups[Len(groups)].span = BucketCount
            /\ \A k \in 1..Len(groups) :
                  /\ groups[k].span >= 1
                  /\ \A c \in groups[k].start_col..(groups[k].start_col + groups[k].span - 1) :
                        /\ BucketDay(c) = BucketDay(groups[k].start_col)
                        /\ groups[k].date = DateLabel(time_intervals[c + 1])
            /\ \A k \in 1..(Len(groups) - 1) :
                  /\ groups[k + 1].start_col = groups[k].start_col + groups[k].span
                  /\ groups[k + 1].date # groups[k].date
                  /\ BucketDay(groups[k + 1].start_col) # BucketDay(groups[k].start_col)

\* Buckets of two days in two groups.
DateGroupsWitness ==
    /\ Loaded
    /\ Len(timeline_table.date_intervals) >= 2
    /\ timeline_table.date_intervals[2].start_col = HoursPerDay \div BucketHours

\* A record with a timestamp that parses, in either accepted shape.
ValidRecord(r) == r.shape \in {"string", "object"} /\ r.dt = "iso"

\* C9: in main.py, a readable events.json with a valid record loads, whatever
\* its other records are, and every valid record is drawn.
MainLoadSkipsBadRecords ==
    (/\ widget.status # "not_constructed"
     /\ events_json.kind = "ok"
     /\ \E p \in RawSlots(events_json.data) :
           ValidRecord(events_json.data[p[1]][p[2]]))
    => /\ widget.status = "ok"
       /\ \A p \in RawSlots(events_json.data) :
             ValidRecord(events_json.data[p[1]][p[2]])
             => \E point \in widget.points :
                   point.label = p[1] /\ point.event = p[2]

\* C10: no events structure, and no minimum instant, comes out of a file in
\* which no timestamp parses.
EmptyDatasetYieldsNothing ==
    "events" \in attrs =>
        /\ EventTimes(events) # {}
        /\ events.min_datetime \in EventTimes(events)

----------------------------------------------------------------------------
(* Properties of the range controls *)

\* C11: after every gesture has been handled, the start field shows the
\* bucket start at the start slider's value and the end field the bucket
\* start at the end slider's value.
FieldsShowSliders ==
    Loaded =>
        /\ controls.start_datetime_edit = time_intervals[controls.start_slider + 1]
        /\ controls.end_datetime_edit = time_intervals[controls.end_slider + 1]

\* C12: the hidden table columns are those of the buckets outside the slider
\* range, and the entity-name column is not hidden.
VisibleColumnsAreRange ==
    Loaded =>
        /\ 0 \notin timeline_table.hidden
        /\ \A i \in BucketCols :
              (i + 1 \in timeline_table.hidden)
                <=> ~(controls.start_slider <= i /\ i <= controls.end_slider)

\* A slider move has left buckets hidden on both sides of the range.
VisibleColumnsWitness ==
    /\ gesture.op \in {"start_slider", "end_slider"}
    /\ controls.start_slider > 0
    /\ controls.end_slider < BucketCount - 1
    /\ 1 \in timeline_table.hidden
    /\ BucketCount \in timeline_table.hidden

\* C15: an end-slider move below the start slider's value leaves the start
\* slider where it was, and a start-slider move above the end slider's value
\* leaves the end slider where it was.
InvertingMoveKeepsOtherHandle ==
    [][/\ (gesture'.op = "end_slider" /\ gesture'.value < controls.start_slider)
            => controls'.start_slider = controls.start_slider
       /\ (gesture'.op = "start_slider" /\ gesture'.value > controls.end_slider)
            => controls'.end_slider = controls.end_slider]_vars

\* C16: an instant typed into the start field that is later than the bucket
\* start at the end slider's value leaves the start slider at the end
\* slider's value and the end slider where it was.
LateStartInstantClamps ==
    [][(gesture'.op = "start_datetime"
         /\ gesture'.value > time_intervals[controls.end_slider + 1])
        => /\ controls'.start_slider = controls.end_slider
           /\ controls'.end_slider = controls.end_slider]_vars

----------------------------------------------------------------------------
(* Properties of the buckets, continued *)

\* floor((t - time_intervals[0]) / 6 hours), bounded to the bucket columns
OffsetColumn(t) ==
    LET k == (t - time_intervals[1]) \div BucketHours
    IN  IF k < 0 THEN 0 ELSE IF k > BucketCount - 1 THEN BucketCount - 1 ELSE k

\* C19: the column the scan of populate_table finds for a kept event is the
\* column of the computed offset.
ScanMatchesOffset ==
    Loaded => \A p \in KeptSlots : ColumnsOf(p) = {OffsetColumn(KeptTime(p))}

\* An event strictly inside a bucket that is not the first.
ScanMatchesOffsetWitness ==
    /\ Loaded
    /\ \E p \in KeptSlots :
          /\ OffsetColumn(KeptTime(p)) >= 1
          /\ KeptTime(p) > time_intervals[OffsetColumn(KeptTime(p)) + 1]
          /\ ColumnsOf(p) = {OffsetColumn(KeptTime(p))}

\* C20 as stated: some bucket starts strictly later than the latest event.
BucketStartsAfterLastEvent ==
    Loaded =>
        \E c \in BucketCols : time_intervals[c + 1] > SetMax(EventTimes(events))

\* C20: the last bucket ends strictly later than the latest event, and a
\* bucket starts strictly later than it exactly when its time of day is before
\* the start of the day's last bucket.
BucketEndsAfterLastEvent ==
    Loaded =>
        LET max_instant == SetMax(EventTimes(events))
        IN  /\ time_intervals[BucketCount] + BucketHours > max_instant
            /\ (\E c \in BucketCols : time_intervals[c + 1] > max_instant)
                 <=> (max_instant % HoursPerDay < HoursPerDay - BucketHours)

\* The latest event lies in the last bucket of its day.
LastEventInLastBucketWitness ==
    /\ Loaded
    /\ SetMax(EventTimes(events)) % HoursPerDay > HoursPerDay - BucketHours
    /\ time_intervals[BucketCount] < SetMax(EventTimes(events))

----------------------------------------------------------------------------
(* Handler cascades of the range controls *)

\* C17: whenever on_slider_change is about to call set_visible_columns, also
\* nested inside other handlers, its start_index is at most its end_index and
\* the two are the values the sliders hold at that moment.
ColumnsCallInOrder ==
    Running("on_slider_change", "columns") =>
        /\ Top.start_index <= Top.end_index
        /\ Top.start_index = controls.start_slider
        /\ Top.end_index = controls.end_slider

\* on_slider_change calls set_visible_columns three handlers deep, after a
\* field edit made the sliders cross.
ColumnsCallNestedWitness ==
    /\ Running("on_slider_change", "columns")
    /\ Len(stack) >= 3
    /\ stack[1].handler = "on_start_datetime_changed"
    /\ Top.start_index = Top.end_index

\* C18: a cascade of handler invocations never nests to the model's depth
\* bound, and every cascade in progress ends with no handler left running.
CascadeTerminates ==
    /\ [](Len(stack) < MaxStack)
    /\ (stack # << >>) ~> (stack = << >>)

\* A field edit has made the sliders cross: four invocations are in progress.
DeepCascadeWitness ==
    /\ Len(stack) >= 4
    /\ gesture.op \in {"start_datetime", "end_datetime"}

----------------------------------------------------------------------------
(* main.py: the slider region and the chart's view *)

\* C13: once the widget is constructed, after any region changes and drags
\* the chart's visible X range is the slider's region.
ViewFollowsRegion ==
    widget.status = "ok" => widget.x_range = widget.region

\* C14: once the widget is constructed, the region's low and high lie
\* within [0, total_hours], low not above high.
RegionWithinTotalHours ==
    widget.status = "ok" =>
        /\ 0 <= widget.region[1]
        /\ widget.region[1] <= widget.region[2]
        /\ widget.region[2] <= widget.total_hours

----------------------------------------------------------------------------
(* main.py: drags on the chart *)

Within(range, limits) == limits[1] <= range[1] /\ range[2] <= limits[2]

\* The X range after the mouse move alone, before the limits are applied.
Requested(pixels) ==
    <<widget.x_range[1] + pixels \div DragSpeedDivisor,
      widget.x_range[2] + pixels \div DragSpeedDivisor>>

\* C21: a left-button drag that starts with the view's X range within the
\* scroll limits leaves it within the limits, keeps its width and the Y
\* range, and ends exactly at a limit the mouse move alone would pass.
DragStaysWithinLimits ==
    [][\A pixels \in DragPixels :
          (Drag(pixels) /\ Within(widget.x_range, widget.scroll_limits)) =>
              /\ Within(widget'.x_range, widget.scroll_limits)
              /\ widget'.x_range[2] - widget'.x_range[1]
                   = widget.x_range[2] - widget.x_range[1]
              /\ widget'.y_range = widget.y_range
              /\ Requested(pixels)[1] < widget.scroll_limits[1]
                   => widget'.x_range[1] = widget.scroll_limits[1]
              /\ Requested(pixels)[2] > widget.scroll_limits[2]
                   => widget'.x_range[2] = widget.scroll_limits[2]
              /\ Within(Requested(pixels), widget.scroll_limits)
                   => widget'.x_range = Requested(pixels)]_vars

\* The chart has been dragged off the region, narrower than the scroll
\* limits, up to the upper limit.
DraggedToLimitWitness ==
    /\ widget.status = "ok"
    /\ widget.x_range # widget.region
    /\ widget.x_range[2] - widget.x_range[1]
         < widget.scroll_limits[2] - widget.scroll_limits[1]
    /\ widget.x_range[1] > widget.scroll_limits[1]
    /\ widget.x_range[2] = widget.scroll_limits[2]

----------------------------------------------------------------------------
(* table.py: attributes read by the handlers *)

\* C22: a handler that reads timeline_table or time_intervals has only run
\* with both attributes assigned by a successful load: showEvent never met
\* an unassigned timeline_table, and the slider and date-time handlers only
\* ran with both attributes assigned.
HandlersReadAssigned ==
    /\ gesture.op = "show_event" => gesture.value = 0
    /\ gesture.op \in {"start_slider", "end_slider", "start_datetime",
                        "end_datetime"}
         => {"time_intervals", "timeline_table"} \subseteq attrs

====
